---- MODULE Spec2Model ----
(***************************************************************************)
(* FantaMattoBot (src/bot.py): the SQLite store (users, matti, sightings), *)
(* its helper functions, the in-memory pending-state maps and the Telegram *)
(* handlers that drive them.  Every handler is one atomic action; texts    *)
(* and catalog lines are sequences of one-character strings so that        *)
(* str.strip, str.split(',', 1) and int() are computed, not assumed.       *)
(***************************************************************************)
EXTENDS Integers, Sequences, FiniteSets, TLC

(* ------------------------------ bounds --------------------------------- *)
MaxChat == 2            \* chats that send updates to the bot are 1..MaxChat
MaxUser == 2            \* chat ids passed to the database helpers are 1..MaxUser
MaxSightingId == 2      \* sightings.id values handed out by AUTOINCREMENT
MaxMattoId == 2         \* matti.id values handed out by AUTOINCREMENT
MaxLines == 2           \* lines of an uploaded catalog file
MaxLimit == 2           \* largest limit passed to get_leaderboard
MaxThread == 2          \* worker threads running handlers at the same time

(* --------------------------- configuration ----------------------------- *)
ADMIN_CHAT_ID == 1
\* REGISTRATION_PASSWORD, abbreviated to two characters of the text alphabet
REGISTRATION_PASSWORD == <<"p", "w">>

ChatIds == 1..MaxChat
UserIds == 1..MaxUser
Threads == 1..MaxThread
None == 0 - 1           \* Python's None where an integer is optional

\* (from_user.username or "", from_user.first_name or "") of an incoming update
NameInputs == {<<"", "Al">>, <<"bo", "Bo">>}

\* texts a chat can send as a plain message
Texts ==
    { <<"p", "w">>, <<" ", "p", "w", " ">>, <<"p">>, <<"p", " ", "w">> }

\* raw lines of an uploaded catalog file
FileLines ==
    { <<"A", ",", "2">>,
      <<" ", "A", " ", ",", " ", "-", "1", " ">>,
      <<"B", ",", "1">>,
      <<"A", ",", "x">>,
      <<"A", "2">>,
      <<" ">> }

RECURSIVE SeqsUpTo(_, _)
SeqsUpTo(S, n) ==
    IF n = 0 THEN {<<>>}
    ELSE LET shorter == SeqsUpTo(S, n - 1)
         IN  shorter \cup {Append(s, x) : s \in {t \in shorter : Len(t) = n - 1}, x \in S}

Files == SeqsUpTo(FileLines, MaxLines)

\* files of name,points lines: a name twice, spaces around the fields, and a
\* line that is no name,points line
CatalogLines ==
    { <<"A", ",", "2">>,
      <<" ", "A", " ", ",", " ", "-", "1", " ">>,
      <<"B", ",", "1">>,
      <<"A", "2">> }

CatalogFiles == SeqsUpTo(CatalogLines, MaxLines)

(* ----------------------------- text helpers ---------------------------- *)
Whitespace == {" "}
Digits == {"0", "1", "2", "3", "4", "5", "6", "7", "8", "9"}

DigitVal(ch) ==
    CASE ch = "0" -> 0 [] ch = "1" -> 1 [] ch = "2" -> 2 [] ch = "3" -> 3
      [] ch = "4" -> 4 [] ch = "5" -> 5 [] ch = "6" -> 6 [] ch = "7" -> 7
      [] ch = "8" -> 8 [] ch = "9" -> 9

RECURSIVE LStrip(_)
LStrip(s) ==
    IF s = <<>> THEN s
    ELSE IF Head(s) \in Whitespace THEN LStrip(Tail(s)) ELSE s

RECURSIVE RStrip(_)
RStrip(s) ==
    IF s = <<>> THEN s
    ELSE IF s[Len(s)] \in Whitespace THEN RStrip(SubSeq(s, 1, Len(s) - 1)) ELSE s

\* str.strip()
Strip(s) == RStrip(LStrip(s))

HasComma(s) == \E i \in 1..Len(s) : s[i] = ","

FirstComma(s) ==
    CHOOSE i \in 1..Len(s) : s[i] = "," /\ \A j \in 1..(i - 1) : s[j] # ","

\* ln.split(',', 1)[0] and ln.split(',', 1)[1]
SplitHead(s) == SubSeq(s, 1, FirstComma(s) - 1)
SplitRest(s) == SubSeq(s, FirstComma(s) + 1, Len(s))

AllDigits(s) == Len(s) > 0 /\ \A i \in 1..Len(s) : s[i] \in Digits

\* the texts int() accepts: an optional sign and decimal digits
IsInt(s) ==
    /\ Len(s) > 0
    /\ IF s[1] \in {"-", "+"} THEN AllDigits(Tail(s)) ELSE AllDigits(s)

RECURSIVE DigitsVal(_)
DigitsVal(s) ==
    IF s = <<>> THEN 0
    ELSE 10 * DigitsVal(SubSeq(s, 1, Len(s) - 1)) + DigitVal(s[Len(s)])

\* int(text) for a text that IsInt accepts
IntVal(s) ==
    IF s[1] = "-" THEN 0 - DigitsVal(Tail(s))
    ELSE IF s[1] = "+" THEN DigitsVal(Tail(s))
    ELSE DigitsVal(s)

(* --------------------------- catalog parsing --------------------------- *)
\* lines = [ln.strip() for ln in f if ln.strip()]
RECURSIVE NonEmptyLines(_)
NonEmptyLines(f) ==
    IF f = <<>> THEN <<>>
    ELSE IF Strip(Head(f)) = <<>> THEN NonEmptyLines(Tail(f))
         ELSE <<Strip(Head(f))>> \o NonEmptyLines(Tail(f))

SeenNames(parsed) == {parsed[i][1] : i \in 1..Len(parsed)}

\* ParseLines with a repeated name overwriting the points parsed before
RECURSIVE ParseLinesKeepLast(_, _)
ParseLinesKeepLast(lines, parsed) ==
    IF lines = <<>> THEN parsed
    ELSE LET ln == Head(lines)
             nome == Strip(SplitHead(ln))
             ptsText == Strip(SplitRest(ln))
         IN  IF ~HasComma(ln) THEN ParseLinesKeepLast(Tail(lines), parsed)
             ELSE IF ~IsInt(ptsText) THEN ParseLinesKeepLast(Tail(lines), parsed)
             ELSE IF nome \in SeenNames(parsed)
                  THEN ParseLinesKeepLast(Tail(lines),
                          [i \in 1..Len(parsed) |->
                              IF parsed[i][1] = nome THEN <<nome, IntVal(ptsText)>>
                              ELSE parsed[i]])
             ELSE ParseLinesKeepLast(Tail(lines), Append(parsed, <<nome, IntVal(ptsText)>>))

\* the for-loop of load_matti_from_file: parsed is the list built so far,
\* seen_names is the set of names in it
RECURSIVE ParseLines(_, _)
ParseLines(lines, parsed) ==
    IF lines = <<>> THEN parsed
    ELSE LET ln == Head(lines)
             nome == Strip(SplitHead(ln))
             ptsText == Strip(SplitRest(ln))
         IN  IF ~HasComma(ln) THEN ParseLines(Tail(lines), parsed)
             ELSE IF ~IsInt(ptsText) THEN ParseLines(Tail(lines), parsed)
             ELSE IF nome \in SeenNames(parsed) THEN ParseLines(Tail(lines), parsed)
             ELSE ParseLines(Tail(lines), Append(parsed, <<nome, IntVal(ptsText)>>))

\* Parsed with the for-loop left at the first line it cannot parse
ParsedUntilBadLine(f) ==
    LET lines == NonEmptyLines(f)
        bad == {i \in 1..Len(lines) :
                   ~HasComma(lines[i]) \/ ~IsInt(Strip(SplitRest(lines[i])))}
        stop == IF bad = {} THEN Len(lines) + 1
                ELSE CHOOSE i \in bad : \A j \in bad : i <= j
    IN  ParseLines(SubSeq(lines, 1, stop - 1), <<>>)

Parsed(f) == ParseLines(NonEmptyLines(f), <<>>)

(* -------------------------------- state -------------------------------- *)
VARIABLES
    users,                \* table users: chat_id -> row
    matti,                \* table matti: set of rows
    sightings,            \* table sightings: set of rows
    next_matto_id,        \* sqlite_sequence for matti (AUTOINCREMENT)
    next_sighting_id,     \* sqlite_sequence for sightings (AUTOINCREMENT)
    foreign_keys,         \* PRAGMA foreign_keys of the shared connection
    pending_matto,        \* chat_id -> chosen target
    pending_password,     \* chats awaiting the password
    admin_upload_pending, \* the admin has asked to upload a catalog
    pending_gallery_user, \* chat_id -> user chosen in /galleria_utente
    pending_gallery_matto,\* chat_id -> target chosen in /galleria_matto
    pending_manage_user,  \* chat_id -> user chosen in /admin
    keyboards,            \* "matto|id" buttons /report has sent: <<chat_id, id>>
    db_lock,              \* the thread holding db_lock, 0 when it is free
    in_transaction,       \* who opened the connection's open transaction, 0 if none
    threads,              \* telebot's worker threads inside a database helper
    last                  \* the last update handled and what it returned

vars == <<users, matti, sightings, next_matto_id, next_sighting_id, foreign_keys,
          pending_matto, pending_password, admin_upload_pending,
          pending_gallery_user, pending_gallery_matto, pending_manage_user,
          keyboards, db_lock, in_transaction, threads, last>>

store == <<users, matti, sightings, next_matto_id, next_sighting_id, foreign_keys>>
browse == <<pending_gallery_user, pending_gallery_matto, pending_manage_user>>
pending == <<pending_matto, pending_password, admin_upload_pending, browse>>
\* what a handler run as one step leaves alone: the buttons in the chats and
\* the worker threads
outside == <<keyboards, db_lock, in_transaction, threads>>

\* what the handler named op answered: res is the branch it took, out the
\* numbers it reported
Reply(op, res, out) == [op |-> op, res |-> res, out |-> out]

NoReply == Reply("init", "ok", <<>>)

Idle == [pc |-> "idle"]

\* the state after init_db() on a fresh database and module import
Init ==
    /\ users = <<>>
    /\ matti = {}
    /\ sightings = {}
    /\ next_matto_id = 1
    /\ next_sighting_id = 1
    /\ foreign_keys = FALSE
    /\ pending_matto = <<>>
    /\ pending_password = {}
    /\ admin_upload_pending = FALSE
    /\ pending_gallery_user = <<>>
    /\ pending_gallery_matto = <<>>
    /\ pending_manage_user = <<>>
    /\ keyboards = {}
    /\ db_lock = 0
    /\ in_transaction = 0
    /\ threads = [t \in Threads |-> Idle]
    /\ last = NoReply

(* ---------------------------- store helpers ---------------------------- *)
HasUser(c) == c \in DOMAIN users

\* function f with the pair (k, v) added or replaced
Put(f, k, v) == [x \in (DOMAIN f) \cup {k} |-> IF x = k THEN v ELSE f[x]]
\* function f without key k
Drop(f, k) == [x \in (DOMAIN f) \ {k} |-> f[x]]

NewUser(username, first_name) ==
    [username |-> username, first_name |-> first_name,
     registered |-> FALSE, total_points |-> 0]

\* register_user as INSERT OR REPLACE
register_user_replace(us, c, username, first_name) ==
    Put(us, c, NewUser(username, first_name))

\* INSERT OR IGNORE INTO users(chat_id, username, first_name)
register_user(us, c, username, first_name) ==
    IF c \in DOMAIN us THEN us ELSE Put(us, c, NewUser(username, first_name))

\* set_registered without its WHERE clause
set_registered_all(us, c, is_reg) ==
    [x \in DOMAIN us |-> [us[x] EXCEPT !.registered = is_reg]]

\* UPDATE users SET registered = ? WHERE chat_id = ?
set_registered(us, c, is_reg) ==
    [x \in DOMAIN us |-> IF x = c THEN [us[x] EXCEPT !.registered = is_reg] ELSE us[x]]

\* unregister_user that also clears the points
unregister_user_reset(us, c) ==
    [x \in DOMAIN us |->
        IF x = c THEN [us[x] EXCEPT !.registered = FALSE, !.total_points = 0] ELSE us[x]]

\* UPDATE users SET registered = 0 WHERE chat_id = ?
unregister_user(us, c) ==
    [x \in DOMAIN us |-> IF x = c THEN [us[x] EXCEPT !.registered = FALSE] ELSE us[x]]

get_registered_chat_ids(us) == {c \in DOMAIN us : us[c].registered}

\* UPDATE users SET total_points = total_points + ? WHERE chat_id = ?
AddPoints(us, c, pts) ==
    [x \in DOMAIN us |->
        IF x = c THEN [us[x] EXCEPT !.total_points = us[x].total_points + pts] ELSE us[x]]

Sighting(id, c, matto_id, pts) ==
    [id |-> id, user_chat_id |-> c, matto_id |-> matto_id, points_awarded |-> pts]

\* the INSERT of add_sighting is rejected only when foreign keys are enforced
AddSightingFails(c, matto_id) ==
    foreign_keys /\ (~HasUser(c) \/ ~\E m \in matti : m.id = matto_id)

SightingIds == {s.id : s \in sightings}
SightingById(id) == CHOOSE s \in sightings : s.id = id

RECURSIVE SumPoints(_)
SumPoints(S) ==
    IF S = {} THEN 0
    ELSE LET s == CHOOSE x \in S : TRUE IN s.points_awarded + SumPoints(S \ {s})

SightingsOf(c) == {s \in sightings : s.user_chat_id = c}

\* the rank counting every user with more points, registered or not
get_user_rank_and_points_all(c) ==
    IF HasUser(c) /\ users[c].registered
    THEN <<users[c].total_points,
           Cardinality({u \in DOMAIN users :
                           users[u].total_points > users[c].total_points}) + 1>>
    ELSE <<>>

\* total_points and rank of a registered user, None otherwise:
\* SELECT total_points, (SELECT COUNT(*) + 1 FROM users u2 WHERE
\*   u2.total_points > u1.total_points AND u2.registered = 1) AS rank
\* FROM users u1 WHERE chat_id = ? AND registered = 1
get_user_rank_and_points(c) ==
    IF HasUser(c) /\ users[c].registered
    THEN <<users[c].total_points,
           Cardinality({u \in DOMAIN users :
                           /\ users[u].total_points > users[c].total_points
                           /\ users[u].registered}) + 1>>
    ELSE <<>>

\* the row orders SELECT ... WHERE registered = 1 ORDER BY total_points DESC
\* may produce: the statement names no second sort key, so rows with equal
\* total_points come in any order
LeaderboardOrders ==
    LET R == get_registered_chat_ids(users)
        n == Cardinality(R)
    IN  {s \in [1..n -> R] :
            /\ \A i, j \in 1..n : i # j => s[i] # s[j]
            /\ \A i, j \in 1..n : i < j => users[s[i]].total_points >= users[s[j]].total_points}

Min(a, b) == IF a < b THEN a ELSE b

\* "if limit:" appends LIMIT only for a limit that is neither None nor 0
LimitApplies(limit) == limit # None /\ limit # 0

get_leaderboard(limit) ==
    IF LimitApplies(limit)
    THEN {SubSeq(s, 1, Min(limit, Len(s))) : s \in LeaderboardOrders}
    ELSE LeaderboardOrders

\* True when sqlite3 has opened a transaction before the statement:
\* PRAGMA foreign_keys is a no-op inside a transaction
PragmaForeignKeys(current, value, open_transaction) ==
    IF open_transaction THEN current ELSE value

\* rows inserted by executemany("INSERT INTO matti (name, points) ...")
NewMatti(parsed, first_id) ==
    {[id |-> first_id + i - 1, name |-> parsed[i][1], points |-> parsed[i][2]] :
        i \in 1..Len(parsed)}

ResetPoints(us) == [x \in DOMAIN us |-> [us[x] EXCEPT !.total_points = 0]]

\* the database part of load_matti_from_file
load_matti_from_file(f) ==
    LET parsed == Parsed(f)
        fk_off == PragmaForeignKeys(foreign_keys, FALSE, FALSE)
    IN  /\ sightings' = {}
        /\ matti' = NewMatti(parsed, next_matto_id)
        /\ users' = ResetPoints(users)
        /\ foreign_keys' = PragmaForeignKeys(fk_off, TRUE, TRUE)
        /\ next_matto_id' = next_matto_id + Len(parsed)
        /\ UNCHANGED next_sighting_id

(* ------------------------------ handlers ------------------------------- *)
\* telebot runs the first handler whose filter matches: a text or a command
\* other than /start from a chat in pending_password goes to handle_password
Shadowed(c) == c \in pending_password

\* cmd_start asking for the password whatever the registered flag is
cmd_start_always_ask(c, names) ==
    LET us == register_user(users, c, names[1], names[2])
    IN  /\ users' = us
        /\ pending_password' = pending_password \cup {c}
        /\ last' = Reply("cmd_start", "ask_password", <<>>)
        /\ UNCHANGED <<matti, sightings, next_matto_id, next_sighting_id, foreign_keys,
                       pending_matto, admin_upload_pending, browse, outside>>

cmd_start(c, names) ==
    LET us == register_user(users, c, names[1], names[2])
    IN  /\ users' = us
        /\ pending_password' =
              IF ~us[c].registered THEN pending_password \cup {c} ELSE pending_password
        /\ last' = Reply("cmd_start",
                         IF us[c].registered THEN "already_registered" ELSE "ask_password",
                         <<>>)
        /\ UNCHANGED <<matti, sightings, next_matto_id, next_sighting_id, foreign_keys,
                       pending_matto, admin_upload_pending, browse, outside>>

handle_password(c, text) ==
    /\ c \in pending_password
    /\ IF Strip(text) = REGISTRATION_PASSWORD
       THEN /\ pending_password' = pending_password \ {c}
            /\ users' = set_registered(users, c, TRUE)
            /\ last' = Reply("handle_password", "correct", <<c, text>>)
       ELSE /\ UNCHANGED <<pending_password, users>>
            /\ last' = Reply("handle_password", "wrong", <<c, text>>)
    /\ UNCHANGED <<matti, sightings, next_matto_id, next_sighting_id, foreign_keys,
                   pending_matto, admin_upload_pending, browse, outside>>

\* /me and /classifica only read the store and answer the chat
cmd_me(c) ==
    /\ ~Shadowed(c)
    /\ get_user_rank_and_points(c) \in {<<>>} \cup (Int \X Int)
    /\ UNCHANGED vars

cmd_full_leaderboard(c) ==
    /\ ~Shadowed(c)
    /\ \E all_users \in get_leaderboard(None) : Len(all_users) >= 0
    /\ UNCHANGED vars

cmd_upload_matti(c) ==
    /\ ~Shadowed(c)
    /\ IF c # ADMIN_CHAT_ID
       THEN /\ last' = Reply("cmd_upload_matti", "not_admin", <<>>)
            /\ UNCHANGED admin_upload_pending
       ELSE /\ admin_upload_pending' = TRUE
            /\ last' = Reply("cmd_upload_matti", "send_file", <<>>)
    /\ UNCHANGED <<store, pending_matto, pending_password, browse, outside>>

\* kind: "no_name" (doc.file_name is None, as Telegram allows), "not_txt"
\* (file name without .txt), "error" (get_file, download_file or decode
\* raises) or "ok"
handler_document(c, kind, f) ==
    /\ IF c # ADMIN_CHAT_ID \/ ~admin_upload_pending
       THEN /\ last' = Reply("handler_document", "ignored", <<c>>)
            /\ UNCHANGED <<store, admin_upload_pending, outside>>
       ELSE IF kind = "no_name"
       THEN \* None.lower(): AttributeError, before the try, ends the handler
            /\ last' = Reply("handler_document", "attribute_error", <<c>>)
            /\ UNCHANGED <<store, admin_upload_pending, outside>>
       ELSE IF kind # "ok"
       THEN /\ admin_upload_pending' = FALSE
            /\ last' = Reply("handler_document", kind, <<c>>)
            /\ UNCHANGED store
       ELSE /\ load_matti_from_file(f)
            /\ admin_upload_pending' = FALSE
            /\ last' = Reply("handler_document", "loaded", <<c, Len(Parsed(f))>>)
    /\ UNCHANGED <<pending_matto, pending_password, browse, outside>>

\* /report: a registered chat gets one "matto|id" button per target
cmd_report(c) ==
    /\ ~Shadowed(c)
    /\ IF ~HasUser(c) \/ ~users[c].registered
       THEN /\ last' = Reply("cmd_report", "not_registered", <<c>>)
            /\ UNCHANGED keyboards
       ELSE IF matti = {}
       THEN /\ last' = Reply("cmd_report", "no_matti", <<c>>)
            /\ UNCHANGED keyboards
       ELSE /\ keyboards' = keyboards \cup {<<c, m.id>> : m \in matti}
            /\ last' = Reply("cmd_report", "keyboard", <<c>>)
    /\ UNCHANGED <<store, pending, db_lock, in_transaction, threads>>

callback_matto(c, matto_id) ==
    /\ IF \E m \in matti : m.id = matto_id
       THEN LET row == CHOOSE m \in matti : m.id = matto_id
            IN  /\ pending_matto' =
                      Put(pending_matto, c,
                          [id |-> matto_id, name |-> row.name, points |-> row.points])
                /\ last' = Reply("callback_matto", "chosen", <<c, matto_id>>)
       ELSE /\ UNCHANGED pending_matto
            /\ last' = Reply("callback_matto", "not_found", <<c, matto_id>>)
    /\ UNCHANGED <<store, pending_password, admin_upload_pending, browse, outside>>

Blocked(outcome) == {cid \in DOMAIN outcome : outcome[cid] = "blocked"}
Sent(outcome) == {cid \in DOMAIN outcome : outcome[cid] = "ok"}

\* the broadcast loop: unregister_user for every recipient whose send fails
\* with "blocked", "not found" or "deactivated"
UnregisterAll(us, removed) ==
    [x \in DOMAIN us |-> IF x \in removed THEN unregister_user(us, x)[x] ELSE us[x]]

\* handler_photo reading pending_matto[chat_id] without pop
handler_photo_keep_slot(c, outcomes) ==
    IF c \notin DOMAIN pending_matto
    THEN /\ last' = Reply("handler_photo", "ignored", <<c>>)
         /\ UNCHANGED <<store, pending, outside>>
    ELSE LET info == pending_matto[c]
             added == AddPoints(users, c, info.points)
         IN  /\ pending_matto' = pending_matto
             /\ UNCHANGED <<pending_password, admin_upload_pending, matti,
                            next_matto_id, foreign_keys, browse, outside>>
             /\ IF AddSightingFails(c, info.id)
                THEN \* sqlite3.IntegrityError leaves add_sighting
                     /\ last' = Reply("handler_photo", "integrity_error", <<c>>)
                     /\ UNCHANGED <<users, sightings, next_sighting_id>>
                ELSE /\ sightings' = sightings \cup
                           {Sighting(next_sighting_id, c, info.id, info.points)}
                     /\ next_sighting_id' = next_sighting_id + 1
                     /\ IF ~HasUser(c)
                        THEN \* fetchone() is None: TypeError ends the handler
                             /\ users' = added
                             /\ last' = Reply("handler_photo", "type_error", <<c>>)
                        ELSE \E outcome \in [get_registered_chat_ids(added) -> outcomes] :
                             /\ users' = UnregisterAll(added, Blocked(outcome))
                             /\ last' = Reply("handler_photo", "reported",
                                   <<c,
                                     Cardinality(Sent(outcome)) - Cardinality(Blocked(outcome)),
                                     Blocked(outcome), Sent(outcome)>>)

\* outcomes: what a send to a recipient can do ("ok", "blocked", "error");
\* last.out is the chat, the number in the confirmation and the recipients
\* the loop has unregistered
handler_photo(c, outcomes) ==
    IF c \notin DOMAIN pending_matto
    THEN /\ last' = Reply("handler_photo", "ignored", <<c>>)
         /\ UNCHANGED <<store, pending, outside>>
    ELSE LET info == pending_matto[c]
             added == AddPoints(users, c, info.points)
         IN  /\ pending_matto' = Drop(pending_matto, c)
             /\ UNCHANGED <<pending_password, admin_upload_pending, matti,
                            next_matto_id, foreign_keys, browse, outside>>
             /\ IF AddSightingFails(c, info.id)
                THEN \* sqlite3.IntegrityError leaves add_sighting
                     /\ last' = Reply("handler_photo", "integrity_error", <<c>>)
                     /\ UNCHANGED <<users, sightings, next_sighting_id>>
                ELSE /\ sightings' = sightings \cup
                           {Sighting(next_sighting_id, c, info.id, info.points)}
                     /\ next_sighting_id' = next_sighting_id + 1
                     /\ IF ~HasUser(c)
                        THEN \* fetchone() is None: TypeError ends the handler
                             /\ users' = added
                             /\ last' = Reply("handler_photo", "type_error", <<c>>)
                        ELSE \E outcome \in [get_registered_chat_ids(added) -> outcomes] :
                             /\ users' = UnregisterAll(added, Blocked(outcome))
                             /\ last' = Reply("handler_photo", "reported",
                                   <<c,
                                     Cardinality(Sent(outcome)) - Cardinality(Blocked(outcome)),
                                     Blocked(outcome), Sent(outcome)>>)

\* delete_sighting without its UPDATE of total_points
delete_sighting_keep_points(sighting_id) ==
    /\ sightings' = sightings \ {SightingById(sighting_id)}
    /\ users' = users

\* the database part of delete_sighting, for an id that exists
delete_sighting(sighting_id) ==
    LET sighting == SightingById(sighting_id)
    IN  /\ sightings' = sightings \ {sighting}
        /\ users' = AddPoints(users, sighting.user_chat_id, 0 - sighting.points_awarded)

\* callback_delete_sighting letting every chat with an /admin session delete
callback_delete_sighting_by_session(c, sighting_id) ==
    /\ IF c \notin DOMAIN pending_manage_user
       THEN /\ last' = Reply("callback_delete_sighting", "not_admin", <<c, sighting_id>>)
            /\ UNCHANGED <<users, sightings>>
       ELSE IF sighting_id \notin SightingIds
       THEN /\ last' = Reply("callback_delete_sighting", "not_found", <<c, sighting_id>>)
            /\ UNCHANGED <<users, sightings>>
       ELSE /\ delete_sighting(sighting_id)
            /\ last' = Reply("callback_delete_sighting", "deleted", <<c, sighting_id>>)
    /\ UNCHANGED <<matti, next_matto_id, next_sighting_id, foreign_keys, pending, outside>>

callback_delete_sighting(c, sighting_id) ==
    /\ IF c # ADMIN_CHAT_ID
       THEN /\ last' = Reply("callback_delete_sighting", "not_admin", <<c, sighting_id>>)
            /\ UNCHANGED <<users, sightings>>
       ELSE IF sighting_id \notin SightingIds
       THEN /\ last' = Reply("callback_delete_sighting", "not_found", <<c, sighting_id>>)
            /\ UNCHANGED <<users, sightings>>
       ELSE /\ delete_sighting(sighting_id)
            /\ last' = Reply("callback_delete_sighting", "deleted", <<c, sighting_id>>)
    /\ UNCHANGED <<matti, next_matto_id, next_sighting_id, foreign_keys, pending, outside>>

(* ------------------------ galleries and /admin ------------------------- *)
\* the rows of sightings JOIN matti for one user: a sighting whose matto_id
\* is no row of matti is in no row of the join
JoinedWithMatti(u) ==
    {s \in sightings : s.user_chat_id = u /\ \E m \in matti : m.id = s.matto_id}

MattoName(matto_id) == (CHOOSE m \in matti : m.id = matto_id).name

\* matto_stats: name -> count, points and the photos' sighting ids
get_user_gallery(u) ==
    LET rows == JoinedWithMatti(u)
        names == {MattoName(s.matto_id) : s \in rows}
        of(n) == {s \in rows : MattoName(s.matto_id) = n}
    IN  [n \in names |->
            [count |-> Cardinality(of(n)),
             points |-> SumPoints(of(n)),
             photos |-> {s.id : s \in of(n)}]]

\* the rows of sightings JOIN users for one target
get_matto_gallery(matto_id) ==
    {s \in sightings : s.matto_id = matto_id /\ HasUser(s.user_chat_id)}

RECURSIVE SumCounts(_)
SumCounts(stats) ==
    IF DOMAIN stats = {} THEN 0
    ELSE LET n == CHOOSE x \in DOMAIN stats : TRUE
         IN  stats[n].count + SumCounts([x \in (DOMAIN stats) \ {n} |-> stats[x]])

Photos(stats) == UNION {stats[n].photos : n \in DOMAIN stats}

\* /galleria_utente, /galleria_matto and /admin only read the store and send
\* a keyboard
cmd_galleria(c) ==
    /\ ~Shadowed(c)
    /\ get_registered_chat_ids(users) \subseteq DOMAIN users
    /\ UNCHANGED vars

cmd_gallery_matto(c) ==
    /\ ~Shadowed(c)
    /\ matti \subseteq matti
    /\ UNCHANGED vars

cmd_manage_sightings(c) ==
    /\ ~Shadowed(c)
    /\ (c = ADMIN_CHAT_ID) \in BOOLEAN
    /\ UNCHANGED vars

\* the id in a callback's data: a number, or None for a text that fails
\* str.isdigit
callback_select_user(c, user_chat_id) ==
    /\ IF user_chat_id = None
       THEN /\ last' = Reply("callback_select_user", "invalid", <<c>>)
            /\ UNCHANGED pending_gallery_user
       ELSE /\ pending_gallery_user' = Put(pending_gallery_user, c, user_chat_id)
            /\ last' = Reply("callback_select_user", "ask_mode", <<c>>)
    /\ UNCHANGED <<store, pending_matto, pending_password, admin_upload_pending,
                   pending_gallery_matto, pending_manage_user, outside>>

callback_select_matto(c, matto_id) ==
    /\ IF matto_id = None
       THEN /\ last' = Reply("callback_select_matto", "invalid", <<c>>)
            /\ UNCHANGED pending_gallery_matto
       ELSE /\ pending_gallery_matto' = Put(pending_gallery_matto, c, matto_id)
            /\ last' = Reply("callback_select_matto", "ask_mode", <<c>>)
    /\ UNCHANGED <<store, pending_matto, pending_password, admin_upload_pending,
                   pending_gallery_user, pending_manage_user, outside>>

\* last.out: the chat, the user, the counts of matto_stats summed and the
\* sightings that get a delete button
callback_manage_user(c, user_chat_id) ==
    /\ IF user_chat_id = None
       THEN /\ last' = Reply("callback_manage_user", "invalid", <<c>>)
            /\ UNCHANGED pending_manage_user
       ELSE LET matto_stats == get_user_gallery(user_chat_id)
            IN  /\ pending_manage_user' = Put(pending_manage_user, c, user_chat_id)
                /\ IF DOMAIN matto_stats = {}
                   THEN last' = Reply("callback_manage_user", "empty",
                                      <<c, user_chat_id, 0, {}>>)
                   ELSE IF ~HasUser(user_chat_id)
                   THEN \* user is None: TypeError ends the handler
                        last' = Reply("callback_manage_user", "type_error",
                                      <<c, user_chat_id, SumCounts(matto_stats), {}>>)
                   ELSE last' = Reply("callback_manage_user", "listed",
                                      <<c, user_chat_id, SumCounts(matto_stats),
                                        Photos(matto_stats)>>)
    /\ UNCHANGED <<store, pending_matto, pending_password, admin_upload_pending,
                   pending_gallery_user, pending_gallery_matto, outside>>

\* mode: the text after "gallery_mode|" ("text", "photos" or anything else)
callback_gallery_mode(c, mode) ==
    /\ IF c \notin DOMAIN pending_gallery_user
       THEN /\ last' = Reply("callback_gallery_mode", "expired", <<c>>)
            /\ UNCHANGED pending_gallery_user
       ELSE LET user_chat_id == pending_gallery_user[c]
                matto_stats == get_user_gallery(user_chat_id)
            IN  IF DOMAIN matto_stats = {}
                THEN /\ last' = Reply("callback_gallery_mode", "empty", <<c>>)
                     /\ UNCHANGED pending_gallery_user
                ELSE IF ~HasUser(user_chat_id)
                THEN \* user is None: TypeError ends the handler
                     /\ last' = Reply("callback_gallery_mode", "type_error", <<c>>)
                     /\ UNCHANGED pending_gallery_user
                ELSE /\ pending_gallery_user' = Drop(pending_gallery_user, c)
                     /\ last' = Reply("callback_gallery_mode", mode, <<c>>)
    /\ UNCHANGED <<store, pending_matto, pending_password, admin_upload_pending,
                   pending_gallery_matto, pending_manage_user, outside>>

callback_matto_mode(c, mode) ==
    /\ IF c \notin DOMAIN pending_gallery_matto
       THEN /\ last' = Reply("callback_matto_mode", "expired", <<c>>)
            /\ UNCHANGED pending_gallery_matto
       ELSE LET matto_id == pending_gallery_matto[c]
            IN  IF ~\E m \in matti : m.id = matto_id
                THEN /\ last' = Reply("callback_matto_mode", "not_found", <<c>>)
                     /\ UNCHANGED pending_gallery_matto
                ELSE IF get_matto_gallery(matto_id) = {}
                THEN /\ last' = Reply("callback_matto_mode", "no_photos", <<c>>)
                     /\ UNCHANGED pending_gallery_matto
                ELSE /\ pending_gallery_matto' = Drop(pending_gallery_matto, c)
                     /\ last' = Reply("callback_matto_mode", mode, <<c>>)
    /\ UNCHANGED <<store, pending_matto, pending_password, admin_upload_pending,
                   pending_gallery_user, pending_manage_user, outside>>

(* ------------------------- calls of the helpers ------------------------ *)
\* one action per database helper, called with any arguments; last records
\* the call's arguments and what it returned or raised
call_register_user(c, names) ==
    /\ users' = register_user(users, c, names[1], names[2])
    /\ last' = Reply("register_user", "ok", <<c, names[1], names[2]>>)
    /\ UNCHANGED <<matti, sightings, next_matto_id, next_sighting_id, foreign_keys, pending, outside>>

call_set_registered(c, is_reg) ==
    /\ users' = set_registered(users, c, is_reg)
    /\ last' = Reply("set_registered", "ok", <<c>>)
    /\ UNCHANGED <<matti, sightings, next_matto_id, next_sighting_id, foreign_keys, pending, outside>>

call_unregister_user(c) ==
    /\ users' = unregister_user(users, c)
    /\ last' = Reply("unregister_user", "ok", <<c>>)
    /\ UNCHANGED <<matti, sightings, next_matto_id, next_sighting_id, foreign_keys, pending, outside>>

call_add_sighting(c, matto_id, points) ==
    /\ IF AddSightingFails(c, matto_id)
       THEN /\ last' = Reply("add_sighting", "integrity_error", <<c, matto_id, points>>)
            /\ UNCHANGED <<users, sightings, next_sighting_id>>
       ELSE /\ sightings' = sightings \cup {Sighting(next_sighting_id, c, matto_id, points)}
            /\ next_sighting_id' = next_sighting_id + 1
            /\ users' = AddPoints(users, c, points)
            /\ last' = Reply("add_sighting", "ok", <<c, matto_id, points, users, sightings>>)
    /\ UNCHANGED <<matti, next_matto_id, foreign_keys, pending, outside>>

\* delete_sighting without "if not sighting: return False"
call_delete_sighting_no_check(sighting_id) ==
    /\ sightings' = {s \in sightings : s.id # sighting_id}
    /\ users' = IF sighting_id \in SightingIds
                THEN AddPoints(users, SightingById(sighting_id).user_chat_id,
                               0 - SightingById(sighting_id).points_awarded)
                ELSE users
    /\ last' = Reply("delete_sighting", "True", <<sighting_id>>)
    /\ UNCHANGED <<matti, next_matto_id, next_sighting_id, foreign_keys, pending, outside>>

call_delete_sighting(sighting_id) ==
    /\ IF sighting_id \notin SightingIds
       THEN /\ last' = Reply("delete_sighting", "False", <<sighting_id>>)
            /\ UNCHANGED <<users, sightings>>
       ELSE /\ delete_sighting(sighting_id)
            /\ last' = Reply("delete_sighting", "True", <<sighting_id>>)
    /\ UNCHANGED <<matti, next_matto_id, next_sighting_id, foreign_keys, pending, outside>>

call_load_matti_from_file(f) ==
    /\ load_matti_from_file(f)
    /\ last' = Reply("load_matti_from_file", "ok", <<Len(Parsed(f)), f>>)
    /\ UNCHANGED <<pending, outside>>

call_get_user_rank_and_points(c) ==
    /\ last' = Reply("get_user_rank_and_points",
                     IF get_user_rank_and_points(c) = <<>> THEN "None" ELSE "row",
                     <<c>> \o get_user_rank_and_points(c))
    /\ UNCHANGED <<store, pending, outside>>

call_get_leaderboard(limit) ==
    /\ \E rows \in get_leaderboard(limit) :
          last' = Reply("get_leaderboard", "rows", <<limit, rows>>)
    /\ UNCHANGED <<store, pending, outside>>

(* --------------------------- worker threads ---------------------------- *)
\* telebot runs handlers on worker threads; a database helper runs on its
\* thread statement by statement: "lock" waits at "with db_lock:", the other
\* labels are the statements of the helper, "unlock" leaves the with block.
\* All threads share the one connection DB and its transaction.

\* the calls a thread can make; a catalog row is a parsed (name, points) with
\* fits telling whether the int is within SQLite's 64-bit INTEGER
ThreadCatalogs ==
    { << [name |-> <<"A">>, points |-> 2, fits |-> TRUE] >>,
      << [name |-> <<"C">>, points |-> 1, fits |-> TRUE],
         [name |-> <<"D">>, points |-> 0, fits |-> FALSE] >> }

ThreadCalls ==
    [op : {"register_user"}, chat_id : UserIds]
    \cup [op : {"add_sighting"}, chat_id : UserIds, matto_id : {1}, points : {2}]
    \cup [op : {"delete_sighting"}, sighting_id : 1..MaxSightingId]
    \cup [op : {"load_matti_from_file"}, parsed : ThreadCatalogs]
    \cup [op : {"get_registered_chat_ids"}]

FirstStatement(op) ==
    CASE op = "register_user" -> "insert_user"
      [] op = "add_sighting" -> "insert_sighting"
      [] op = "delete_sighting" -> "select_sighting"
      [] op = "load_matti_from_file" -> "pragma_off"
      [] op = "get_registered_chat_ids" -> "select_registered"
      [] op = "unregister_user" -> "update_registered"
      [] op = "set_registered" -> "set_registered"
      [] op = "get_user_gallery" -> "select_gallery"
      [] op = "select_total_points" -> "select_total"
      [] op = "broadcast" -> "select_recipients"

Goto(t, label) == threads' = [threads EXCEPT ![t].pc = label]

\* sqlite3 opens a transaction before the first INSERT, UPDATE or DELETE when
\* none is open
Begin(t) == IF in_transaction = 0 THEN t ELSE in_transaction

\* a handler on thread t calls a helper
t_call(t, call) ==
    /\ threads[t].pc = "idle"
    /\ threads' = [threads EXCEPT ![t] = [pc |-> "lock", call |-> call]]
    /\ UNCHANGED <<store, pending, keyboards, db_lock, in_transaction, last>>

\* "with db_lock:" blocks until the lock is free
t_acquire(t) ==
    /\ threads[t].pc = "lock"
    /\ db_lock = 0
    /\ db_lock' = t
    /\ Goto(t, FirstStatement(threads[t].call.op))
    /\ UNCHANGED <<store, pending, keyboards, in_transaction, last>>

\* t_release with the handler's next with block nested in the one it leaves:
\* the lock is still held when the next block asks for it
t_release_nested(t) ==
    /\ threads[t].pc = "unlock"
    /\ IF "then" \in DOMAIN threads[t].call
       THEN /\ threads' = [threads EXCEPT ![t] = [pc |-> "lock", call |-> threads[t].call.then]]
            /\ UNCHANGED db_lock
       ELSE /\ threads' = [threads EXCEPT ![t] = Idle]
            /\ db_lock' = 0
    /\ UNCHANGED <<store, pending, keyboards, in_transaction, last>>

\* leaving the with block releases the lock, also when a statement raised;
\* a handler that calls another helper afterwards (call.then) goes on to wait
\* at that helper's with block
t_release(t) ==
    /\ threads[t].pc = "unlock"
    /\ db_lock' = 0
    /\ threads' = [threads EXCEPT ![t] =
                      IF "then" \in DOMAIN threads[t].call
                      THEN [pc |-> "lock", call |-> threads[t].call.then]
                      ELSE Idle]
    /\ UNCHANGED <<store, pending, keyboards, in_transaction, last>>

\* DB.commit() ends the connection's transaction, whoever opened it
t_commit(t) ==
    /\ threads[t].pc = "commit"
    /\ in_transaction' = 0
    /\ Goto(t, "unlock")
    /\ UNCHANGED <<store, pending, keyboards, db_lock, last>>

t_register_user(t) ==
    /\ threads[t].pc = "insert_user"
    /\ users' = register_user(users, threads[t].call.chat_id, "bo", "Bo")
    /\ in_transaction' = Begin(t)
    /\ Goto(t, "commit")
    /\ UNCHANGED <<matti, sightings, next_matto_id, next_sighting_id, foreign_keys,
                   pending, keyboards, db_lock, last>>

t_add_sighting(t) ==
    LET call == threads[t].call
    IN  \/ /\ threads[t].pc = "insert_sighting"
           /\ sightings' = sightings \cup
                 {Sighting(next_sighting_id, call.chat_id, call.matto_id, call.points)}
           /\ next_sighting_id' = next_sighting_id + 1
           /\ in_transaction' = Begin(t)
           /\ Goto(t, "update_points")
           /\ UNCHANGED <<users, matti, next_matto_id, foreign_keys,
                          pending, keyboards, db_lock, last>>
        \/ /\ threads[t].pc = "update_points"
           /\ users' = AddPoints(users, call.chat_id, call.points)
           /\ in_transaction' = Begin(t)
           /\ Goto(t, "commit")
           /\ UNCHANGED <<matti, sightings, next_matto_id, next_sighting_id, foreign_keys,
                          pending, keyboards, db_lock, last>>

\* the SELECT keeps the row it found in the thread's local variable sighting
t_delete_sighting(t) ==
    LET call == threads[t].call
    IN  \/ /\ threads[t].pc = "select_sighting"
           /\ IF call.sighting_id \in SightingIds
              THEN threads' = [threads EXCEPT ![t] =
                                  [pc |-> "delete_row", call |-> call,
                                   sighting |-> SightingById(call.sighting_id)]]
              ELSE Goto(t, "unlock")
           /\ UNCHANGED <<store, pending, keyboards, db_lock, in_transaction, last>>
        \/ /\ threads[t].pc = "delete_row"
           /\ sightings' = {x \in sightings : x.id # call.sighting_id}
           /\ in_transaction' = Begin(t)
           /\ Goto(t, "take_points")
           /\ UNCHANGED <<users, matti, next_matto_id, next_sighting_id, foreign_keys,
                          pending, keyboards, db_lock, last>>
        \/ /\ threads[t].pc = "take_points"
           /\ users' = AddPoints(users, threads[t].sighting.user_chat_id,
                                 0 - threads[t].sighting.points_awarded)
           /\ in_transaction' = Begin(t)
           /\ Goto(t, "commit")
           /\ UNCHANGED <<matti, sightings, next_matto_id, next_sighting_id, foreign_keys,
                          pending, keyboards, db_lock, last>>

\* the rows executemany inserts before it reaches a row that does not fit
FittingPrefix(parsed) ==
    LET bad == {i \in 1..Len(parsed) : ~parsed[i].fits}
    IN  IF bad = {} THEN parsed
        ELSE SubSeq(parsed, 1, (CHOOSE i \in bad : \A j \in bad : i <= j) - 1)

t_load_matti_from_file(t) ==
    LET parsed == threads[t].call.parsed
        rows == [i \in 1..Len(FittingPrefix(parsed)) |->
                    <<parsed[i].name, parsed[i].points>>]
    IN  \/ /\ threads[t].pc = "pragma_off"
           /\ foreign_keys' = PragmaForeignKeys(foreign_keys, FALSE, in_transaction # 0)
           /\ Goto(t, "delete_sightings")
           /\ UNCHANGED <<users, matti, sightings, next_matto_id, next_sighting_id,
                          pending, keyboards, db_lock, in_transaction, last>>
        \/ /\ threads[t].pc = "delete_sightings"
           /\ sightings' = {}
           /\ in_transaction' = Begin(t)
           /\ Goto(t, "delete_matti")
           /\ UNCHANGED <<users, matti, next_matto_id, next_sighting_id, foreign_keys,
                          pending, keyboards, db_lock, last>>
        \/ /\ threads[t].pc = "delete_matti"
           /\ matti' = {}
           /\ in_transaction' = Begin(t)
           /\ Goto(t, "reset_points")
           /\ UNCHANGED <<users, sightings, next_matto_id, next_sighting_id, foreign_keys,
                          pending, keyboards, db_lock, last>>
        \/ /\ threads[t].pc = "reset_points"
           /\ users' = ResetPoints(users)
           /\ in_transaction' = Begin(t)
           /\ Goto(t, "pragma_on")
           /\ UNCHANGED <<matti, sightings, next_matto_id, next_sighting_id, foreign_keys,
                          pending, keyboards, db_lock, last>>
        \/ /\ threads[t].pc = "pragma_on"
           /\ foreign_keys' = PragmaForeignKeys(foreign_keys, TRUE, in_transaction # 0)
           /\ Goto(t, "insert_matti")
           /\ UNCHANGED <<users, matti, sightings, next_matto_id, next_sighting_id,
                          pending, keyboards, db_lock, in_transaction, last>>
        \/ /\ threads[t].pc = "insert_matti"
           /\ matti' = matti \cup NewMatti(rows, next_matto_id)
           /\ next_matto_id' = next_matto_id + Len(rows)
           /\ IF Len(rows) = Len(parsed)
              THEN /\ in_transaction' = Begin(t)
                   /\ Goto(t, "commit")
              ELSE \* OverflowError leaves the with block: no commit, no rollback,
                   \* the transaction stays open with nobody running it
                   /\ in_transaction' = None
                   /\ Goto(t, "unlock")
           /\ UNCHANGED <<users, sightings, next_sighting_id, foreign_keys,
                          pending, keyboards, db_lock, last>>

\* a helper that only reads: SELECT chat_id FROM users WHERE registered = 1
t_get_registered_chat_ids(t) ==
    /\ threads[t].pc = "select_registered"
    /\ get_registered_chat_ids(users) \subseteq DOMAIN users
    /\ Goto(t, "unlock")
    /\ UNCHANGED <<store, pending, keyboards, db_lock, in_transaction, last>>

t_unregister_user(t) ==
    /\ threads[t].pc = "update_registered"
    /\ users' = unregister_user(users, threads[t].call.chat_id)
    /\ in_transaction' = Begin(t)
    /\ Goto(t, "commit")
    /\ UNCHANGED <<matti, sightings, next_matto_id, next_sighting_id, foreign_keys,
                   pending, keyboards, db_lock, last>>

\* set_registered(chat_id, True), as handle_password calls it
t_set_registered(t) ==
    /\ threads[t].pc = "set_registered"
    /\ users' = set_registered(users, threads[t].call.chat_id, TRUE)
    /\ in_transaction' = Begin(t)
    /\ Goto(t, "commit")
    /\ UNCHANGED <<matti, sightings, next_matto_id, next_sighting_id, foreign_keys,
                   pending, keyboards, db_lock, last>>

\* the SELECT and the grouping loop both run inside the with block
t_get_user_gallery(t) ==
    /\ threads[t].pc = "select_gallery"
    /\ DOMAIN get_user_gallery(threads[t].call.chat_id) \subseteq {m.name : m \in matti}
    /\ Goto(t, "unlock")
    /\ UNCHANGED <<store, pending, keyboards, db_lock, in_transaction, last>>

\* handler_photo after pending_matto.pop: add_sighting, then its own with
\* block around SELECT total_points, then get_registered_chat_ids and, outside
\* any lock, the sends; unregister_user for a recipient that is unreachable
PhotoCalls ==
    {[op |-> "add_sighting", chat_id |-> c, matto_id |-> 1, points |-> 2,
      then |-> [op |-> "select_total_points", chat_id |-> c,
                then |-> [op |-> "broadcast"]]] : c \in UserIds}

t_handler_photo(t) ==
    LET call == threads[t].call
    IN  \/ /\ threads[t].pc = "select_total"
           /\ threads' = [threads EXCEPT ![t] =
                 IF HasUser(call.chat_id)
                 THEN [pc |-> "unlock", call |-> call]
                 ELSE \* fetchone() is None: TypeError leaves the with block
                      \* and ends the handler
                      [pc |-> "unlock", call |-> [op |-> "select_total_points",
                                                  chat_id |-> call.chat_id]]]
           /\ UNCHANGED <<store, pending, keyboards, db_lock, in_transaction, last>>
        \/ /\ threads[t].pc = "select_recipients"
           /\ \E cid \in get_registered_chat_ids(users) \cup {None} :
                 threads' = [threads EXCEPT ![t] =
                    IF cid = None
                    THEN [pc |-> "unlock", call |-> call]
                    ELSE [pc |-> "unlock",
                          call |-> [op |-> "broadcast",
                                    then |-> [op |-> "unregister_user", chat_id |-> cid]]]]
           /\ UNCHANGED <<store, pending, keyboards, db_lock, in_transaction, last>>

(* --------------------------- specifications ---------------------------- *)
SendOutcomes == {"ok", "blocked", "error"}
Limits == {None} \cup 0..MaxLimit
PointInputs == {2, 0 - 1}

\* the inputs that play no part in a specification are held to one value
OneName == {<<"bo", "Bo">>}
OneFile == {<<>>, << <<"A", ",", "1">> >>}

\* every update the bot can receive, with its inputs drawn from the given sets
NextOver(names, texts, files, outcomes) ==
    \/ \E c \in ChatIds, n \in names : cmd_start(c, n)
    \/ \E c \in ChatIds, text \in texts : handle_password(c, text)
    \/ \E c \in ChatIds : cmd_me(c)
    \/ \E c \in ChatIds : cmd_full_leaderboard(c)
    \/ \E c \in ChatIds : cmd_upload_matti(c)
    \/ \E c \in ChatIds, kind \in {"not_txt", "error"} : handler_document(c, kind, <<>>)
    \/ \E c \in ChatIds, f \in files :
          /\ next_matto_id + Len(Parsed(f)) - 1 <= MaxMattoId
          /\ handler_document(c, "ok", f)
    \/ \E c \in ChatIds, matto_id \in 1..MaxMattoId : callback_matto(c, matto_id)
    \/ \E c \in ChatIds :
          /\ next_sighting_id <= MaxSightingId
          /\ handler_photo(c, outcomes)
    \/ \E c \in ChatIds, sighting_id \in 1..MaxSightingId :
          callback_delete_sighting(c, sighting_id)

Next == NextOver(OneName, Texts, OneFile, SendOutcomes)

\* the report flow as the chats drive it: /start and the password, the admin's
\* uploads, /report, a button of a keyboard /report has sent, a photo, and
\* the admin's deletions
ReportFiles == { << <<"A", ",", "2">> >>, << <<"A", ",", "-", "1">> >> }

ReportNext ==
    \/ \E c \in ChatIds, n \in OneName : cmd_start(c, n)
    \/ \E c \in ChatIds : handle_password(c, REGISTRATION_PASSWORD)
    \/ \E c \in ChatIds : cmd_upload_matti(c)
    \/ \E c \in ChatIds, f \in ReportFiles :
          /\ next_matto_id + Len(Parsed(f)) - 1 <= MaxMattoId
          /\ handler_document(c, "ok", f)
    \/ \E c \in ChatIds : cmd_report(c)
    \/ \E button \in keyboards : callback_matto(button[1], button[2])
    \/ \E c \in ChatIds :
          /\ next_sighting_id <= MaxSightingId
          /\ handler_photo(c, SendOutcomes)
    \/ \E c \in ChatIds, sighting_id \in 1..MaxSightingId :
          callback_delete_sighting(c, sighting_id)

SpecReport == Init /\ [][ReportNext]_vars

\* uploads: documents of every kind from every chat, with and without a
\* pending /upload_matti, over a store with users, a catalog and sightings
DocumentKinds == {"no_name", "not_txt", "error"}

UploadNext ==
    \/ \E c \in ChatIds, n \in OneName : cmd_start(c, n)
    \/ \E c \in ChatIds : handle_password(c, REGISTRATION_PASSWORD)
    \/ \E c \in ChatIds : cmd_upload_matti(c)
    \/ \E c \in ChatIds, kind \in DocumentKinds : handler_document(c, kind, <<>>)
    \/ \E c \in ChatIds, f \in ReportFiles :
          /\ next_matto_id + Len(Parsed(f)) - 1 <= MaxMattoId
          /\ handler_document(c, "ok", f)
    \/ \E c \in ChatIds, m \in matti :
          /\ next_sighting_id <= MaxSightingId
          /\ call_add_sighting(c, m.id, m.points)

SpecUpload == Init /\ [][UploadNext]_vars

\* registration: /start, right and wrong passwords, and the reports whose
\* broadcast unregisters the chats it cannot reach
RegistrationTexts == {REGISTRATION_PASSWORD, <<"p">>}

RegistrationNext ==
    \/ \E c \in ChatIds, n \in OneName : cmd_start(c, n)
    \/ \E c \in ChatIds, text \in RegistrationTexts : handle_password(c, text)
    \/ \E f \in OneFile :
          /\ next_matto_id + Len(Parsed(f)) - 1 <= MaxMattoId
          /\ call_load_matti_from_file(f)
    \/ \E c \in ChatIds : cmd_report(c)
    \/ \E button \in keyboards : callback_matto(button[1], button[2])
    \/ \E c \in ChatIds :
          /\ next_sighting_id <= MaxSightingId
          /\ handler_photo(c, {"ok", "blocked"})

SpecRegistration == Init /\ [][RegistrationNext]_vars

\* the helpers on telebot's worker threads, in any interleaving
ThreadsNext ==
    \/ \E t \in Threads, call \in ThreadCalls :
          /\ call.op = "add_sighting" => next_sighting_id <= MaxSightingId
          /\ call.op = "load_matti_from_file"
                => next_matto_id + Len(call.parsed) - 1 <= MaxMattoId + 1
          /\ t_call(t, call)
    \/ \E t \in Threads : t_acquire(t)
    \/ \E t \in Threads : t_release(t)
    \/ \E t \in Threads : t_commit(t)
    \/ \E t \in Threads : t_register_user(t)
    \/ \E t \in Threads : t_add_sighting(t)
    \/ \E t \in Threads : t_delete_sighting(t)
    \/ \E t \in Threads : t_load_matti_from_file(t)
    \/ \E t \in Threads : t_get_registered_chat_ids(t)

SpecThreads == Init /\ [][ThreadsNext]_vars

\* the lock: handlers that enter with db_lock once (a gallery, /start, a
\* right password) and handler_photo, which enters it several times
LockCalls ==
    PhotoCalls
    \cup [op : {"get_user_gallery", "register_user"}, chat_id : UserIds]
    \cup [op : {"set_registered"}, chat_id : {ADMIN_CHAT_ID}]

t_step(t) ==
    \/ t_release(t)
    \/ t_commit(t)
    \/ t_register_user(t)
    \/ t_unregister_user(t)
    \/ t_set_registered(t)
    \/ t_add_sighting(t)
    \/ t_get_user_gallery(t)
    \/ t_handler_photo(t)

LockNext ==
    \/ \E t \in Threads, call \in LockCalls :
          /\ call.op = "add_sighting" => next_sighting_id <= MaxSightingId
          /\ t_call(t, call)
    \/ \E t \in Threads : t_acquire(t)
    \/ \E t \in Threads : t_release(t)
    \/ \E t \in Threads : t_commit(t)
    \/ \E t \in Threads : t_register_user(t)
    \/ \E t \in Threads : t_unregister_user(t)
    \/ \E t \in Threads : t_set_registered(t)
    \/ \E t \in Threads : t_add_sighting(t)
    \/ \E t \in Threads : t_get_user_gallery(t)
    \/ \E t \in Threads : t_handler_photo(t)

\* a running thread goes on running, and a thread waiting for the lock gets
\* it if it is free again and again
SpecLock ==
    /\ Init /\ [][LockNext]_vars
    /\ \A t \in Threads : WF_vars(t_step(t)) /\ SF_vars(t_acquire(t))

Modes == {"text", "photos", "other"}

\* the galleries over any store: users, a catalog and sightings, and the
\* buttons of /galleria_utente and /galleria_matto with any id a client sends
BrowseNext ==
    \/ \E c \in UserIds, n \in OneName : call_register_user(c, n)
    \/ \E f \in OneFile :
          /\ next_matto_id + Len(Parsed(f)) - 1 <= MaxMattoId
          /\ call_load_matti_from_file(f)
    \/ \E c \in UserIds, m \in matti :
          /\ next_sighting_id <= MaxSightingId
          /\ call_add_sighting(c, m.id, m.points)
    \/ \E c \in ChatIds : cmd_galleria(c)
    \/ \E c \in ChatIds : cmd_gallery_matto(c)
    \/ \E c \in ChatIds, u \in UserIds \cup {None} : callback_select_user(c, u)
    \/ \E c \in ChatIds, m \in (1..MaxMattoId) \cup {None} : callback_select_matto(c, m)
    \/ \E c \in ChatIds, mode \in Modes : callback_gallery_mode(c, mode)
    \/ \E c \in ChatIds, mode \in Modes : callback_matto_mode(c, mode)

SpecBrowse == Init /\ [][BrowseNext]_vars

\* the five pending maps: every handler that puts a chat into a map or takes
\* it out, each with one id to choose
ModesNext ==
    \/ \E c \in ChatIds, n \in OneName : cmd_start(c, n)
    \/ \E c \in ChatIds : handle_password(c, REGISTRATION_PASSWORD)
    \/ \E f \in OneFile :
          /\ next_matto_id + Len(Parsed(f)) - 1 <= MaxMattoId
          /\ call_load_matti_from_file(f)
    \/ \E c \in ChatIds : callback_matto(c, 1)
    \/ \E c \in ChatIds :
          /\ next_sighting_id <= MaxSightingId
          /\ handler_photo(c, {"ok"})
    \/ \E c \in ChatIds : callback_select_user(c, ADMIN_CHAT_ID)
    \/ \E c \in ChatIds : callback_select_matto(c, 1)
    \/ \E c \in ChatIds : callback_manage_user(c, ADMIN_CHAT_ID)
    \/ \E c \in ChatIds : callback_gallery_mode(c, "text")
    \/ \E c \in ChatIds : callback_matto_mode(c, "text")

SpecModes == Init /\ [][ModesNext]_vars

\* /admin: the admin's session over the sightings the report flow leaves
AdminNext ==
    \/ \E c \in ChatIds, n \in OneName : cmd_start(c, n)
    \/ \E c \in ChatIds : handle_password(c, REGISTRATION_PASSWORD)
    \/ \E f \in OneFile :
          /\ next_matto_id + Len(Parsed(f)) - 1 <= MaxMattoId
          /\ call_load_matti_from_file(f)
    \/ \E c \in ChatIds : cmd_report(c)
    \/ \E button \in keyboards : callback_matto(button[1], button[2])
    \/ \E c \in ChatIds :
          /\ next_sighting_id <= MaxSightingId
          /\ handler_photo(c, {"ok"})
    \/ \E c \in ChatIds : cmd_manage_sightings(c)
    \/ \E c \in ChatIds, u \in UserIds \cup {None} : callback_manage_user(c, u)
    \/ \E c \in ChatIds, sighting_id \in 1..MaxSightingId :
          callback_delete_sighting(c, sighting_id)

SpecAdmin == Init /\ [][AdminNext]_vars

Spec == Init /\ [][Next]_vars

\* sightings and totals: users are created, sightings recorded and deleted,
\* the catalog reloaded
SightingsNext ==
    \/ \E c \in UserIds, n \in OneName : call_register_user(c, n)
    \/ \E c \in UserIds, pts \in PointInputs :
          /\ next_sighting_id <= MaxSightingId
          /\ call_add_sighting(c, 1, pts)
    \/ \E sighting_id \in 1..MaxSightingId : call_delete_sighting(sighting_id)
    \/ \E f \in OneFile :
          /\ next_matto_id + Len(Parsed(f)) - 1 <= MaxMattoId
          /\ call_load_matti_from_file(f)

SpecSightings == Init /\ [][SightingsNext]_vars

\* the catalog: any file is loaded over any earlier catalog, sightings and totals
CatalogNext ==
    \/ \E c \in UserIds, n \in OneName : call_register_user(c, n)
    \/ \E c \in UserIds, m \in matti :
          /\ next_sighting_id <= MaxSightingId
          /\ call_add_sighting(c, m.id, m.points)
    \/ \E f \in CatalogFiles :
          /\ next_matto_id + Len(Parsed(f)) - 1 <= MaxMattoId
          /\ call_load_matti_from_file(f)

SpecCatalog == Init /\ [][CatalogNext]_vars

\* the parser: files with lines it skips (no comma, points that are no
\* integer, blank) before, between and after the lines it keeps
ParserNext ==
    \E f \in Files :
       /\ next_matto_id <= MaxMattoId + 1
       /\ call_load_matti_from_file(f)

SpecParser == Init /\ [][ParserNext]_vars

\* ranks and leaderboards of users with any registration and any totals
RankNext ==
    \/ \E c \in UserIds, n \in OneName : call_register_user(c, n)
    \/ \E c \in UserIds, is_reg \in BOOLEAN : call_set_registered(c, is_reg)
    \/ \E c \in UserIds, pts \in PointInputs :
          /\ next_sighting_id <= MaxSightingId
          /\ call_add_sighting(c, 1, pts)
    \/ \E c \in UserIds : call_get_user_rank_and_points(c)
    \/ \E limit \in Limits : call_get_leaderboard(limit)

SpecRank == Init /\ [][RankNext]_vars

\* user rows: /start from chats that are new, known, registered or not
UsersNext ==
    \/ \E c \in UserIds, n \in NameInputs : call_register_user(c, n)
    \/ \E c \in UserIds, is_reg \in BOOLEAN : call_set_registered(c, is_reg)
    \/ \E c \in UserIds : call_unregister_user(c)
    \/ \E c \in UserIds, pts \in PointInputs :
          /\ next_sighting_id <= MaxSightingId
          /\ call_add_sighting(c, 1, pts)

SpecUsers == Init /\ [][UsersNext]_vars

(* ------------------------------- claims -------------------------------- *)
TotalOf(c) == users[c].total_points

\* C1: for every user row, total_points equals the sum of points_awarded over
\* the sighting rows whose user_chat_id is that user.
C1_TotalsMatchSightings ==
    \A c \in DOMAIN users : TotalOf(c) = SumPoints(SightingsOf(c))

\* the (name, points) lines of a file: the lines of the form name,integer
IsNamePointsLine(ln) == HasComma(ln) /\ IsInt(Strip(SplitRest(ln)))
LineName(ln) == Strip(SplitHead(ln))
LinePoints(ln) == IntVal(Strip(SplitRest(ln)))
NamePointsLines(f) == {i \in 1..Len(f) : IsNamePointsLine(f[i])}
\* the points of the first line of f that names n
FirstPoints(f, n) ==
    LinePoints(f[CHOOSE i \in NamePointsLines(f) :
                    /\ LineName(f[i]) = n
                    /\ \A j \in NamePointsLines(f) : LineName(f[j]) = n => i <= j])
ExpectedCatalog(f) ==
    {<<LineName(f[i]), FirstPoints(f, LineName(f[i]))>> : i \in NamePointsLines(f)}

C3_RecordThenDelete ==
    [][(/\ last.op = "add_sighting" /\ last.res = "ok"
        /\ last.out[1] \in DOMAIN last.out[4]
        /\ last'.op = "delete_sighting"
        /\ {last'.out[1]} = {s.id : s \in sightings \ last.out[5]})
       => /\ last'.res = "True"
          /\ DOMAIN users' = DOMAIN last.out[4]
          /\ \A c \in DOMAIN users' :
                users'[c].total_points = last.out[4][c].total_points
          /\ sightings' = last.out[5]]_vars

\* the newest sighting has been deleted while another user keeps a sighting and
\* a total that is not 0
C3_Witness ==
    /\ last.op = "delete_sighting" /\ last.res = "True"
    /\ last.out[1] = next_sighting_id - 1
    /\ \E s \in sightings : HasUser(s.user_chat_id) /\ TotalOf(s.user_chat_id) # 0
    /\ \E c \in DOMAIN users : TotalOf(c) = 0

\* C4: add_sighting for a user id without a row signals an error, inserts no
\* sighting row and changes no total.
C4_UnknownUserRejected ==
    [][(last'.op = "add_sighting" /\ last'.out[1] \notin DOMAIN users)
       => /\ last'.res = "integrity_error"
          /\ sightings' = sightings
          /\ users' = users]_vars

\* C5: delete_sighting on an id that is not in the table returns False and
\* leaves users, sightings and catalog unchanged; deleting an id a second
\* time is such a call, so the owner's total is decremented once.
C5_DeleteMissingIsNoOp ==
    [][/\ (last'.op = "delete_sighting" /\ last'.out[1] \notin SightingIds)
          => /\ last'.res = "False"
             /\ users' = users /\ sightings' = sightings /\ matti' = matti
       /\ (/\ last.op = "delete_sighting" /\ last.res = "True"
           /\ last'.op = "delete_sighting" /\ last'.out = last.out)
          => /\ last'.res = "False"
             /\ users' = users /\ sightings' = sightings /\ matti' = matti]_vars

\* an id has just been deleted a second time; its owner has a row and another
\* sighting is still in the table
C5_Witness ==
    /\ last.op = "delete_sighting" /\ last.res = "False"
    /\ last.out[1] < next_sighting_id
    /\ sightings # {}
    /\ \E c \in DOMAIN users : TotalOf(c) # 0

\* C6: get_user_rank_and_points of a registered user returns the user's
\* total_points and 1 + the number of other registered users with strictly
\* more points; of an unregistered user or an id without a row, nothing.
C6_RankAndPoints ==
    last.op = "get_user_rank_and_points" =>
        LET c == last.out[1]
        IN  IF HasUser(c) /\ users[c].registered
            THEN /\ last.res = "row"
                 /\ last.out[2] = TotalOf(c)
                 /\ last.out[3] =
                       1 + Cardinality({u \in (DOMAIN users) \ {c} :
                                           users[u].registered /\ TotalOf(u) > TotalOf(c)})
            ELSE last.res = "None" /\ Len(last.out) = 1

\* a registered user is ranked first although an unregistered user has more
\* points
C6_Witness ==
    /\ last.op = "get_user_rank_and_points" /\ last.res = "row"
    /\ last.out[3] = 1
    /\ \E u \in DOMAIN users : ~users[u].registered /\ TotalOf(u) > last.out[2]

Registered == {c \in DOMAIN users : users[c].registered}

\* rows lists distinct registered users by non-increasing total_points, and
\* no registered user left out has more points than a listed one
IsLeaderboardPrefix(rows) ==
    /\ \A i \in 1..Len(rows) : rows[i] \in Registered
    /\ \A i, j \in 1..Len(rows) : i # j => rows[i] # rows[j]
    /\ \A i, j \in 1..Len(rows) : i < j => TotalOf(rows[i]) >= TotalOf(rows[j])
    /\ \A c \in Registered :
          (\A i \in 1..Len(rows) : rows[i] # c) =>
              \A i \in 1..Len(rows) : TotalOf(rows[i]) >= TotalOf(c)

\* C7: without a limit get_leaderboard returns every registered user once,
\* no unregistered user, by non-increasing total_points; with limit n, the
\* first n entries of that order (all of them when there are fewer than n).
C7_LeaderboardFirstN ==
    last.op = "get_leaderboard" =>
        LET limit == last.out[1]
            rows == last.out[2]
        IN  /\ IsLeaderboardPrefix(rows)
            /\ Len(rows) = IF limit = None THEN Cardinality(Registered)
                           ELSE Min(limit, Cardinality(Registered))

\* C8: two registered users with equal total_points always appear in the
\* leaderboard in ascending user-id order.
C8_TiesByUserId ==
    last.op = "get_leaderboard" =>
        LET rows == last.out[2]
        IN  \A i, j \in 1..Len(rows) :
               (i < j /\ TotalOf(rows[i]) = TotalOf(rows[j])) => rows[i] < rows[j]

\* C9: register_user on an id that already has a row changes no row of any
\* table: registered, total_points and the stored names stay as they were.
C9_RegisterExistingIsNoOp ==
    [][(last'.op = "register_user" /\ last'.out[1] \in DOMAIN users)
       => users' = users /\ sightings' = sightings /\ matti' = matti]_vars

\* register_user has been called with other names for a registered user who
\* has points
C9_Witness ==
    /\ last.op = "register_user"
    /\ users[last.out[1]].username # last.out[2]
    /\ users[last.out[1]].registered
    /\ TotalOf(last.out[1]) # 0

BecomesRegistered(c) ==
    /\ c \in DOMAIN users /\ ~users[c].registered
    /\ c \in DOMAIN users' /\ users'[c].registered

\* C10, as claimed: the registered flag goes from false to true only when the
\* chat is in pending_password and sends exactly the configured password; any
\* other message leaves the chat in pending_password and unregistered.
C10_ExactPasswordOnly ==
    [][/\ \A c \in ChatIds :
             BecomesRegistered(c) =>
                /\ c \in pending_password
                /\ last'.op = "handle_password"
                /\ last'.out = <<c, REGISTRATION_PASSWORD>>
       /\ (last'.op = "handle_password" /\ last'.out[2] # REGISTRATION_PASSWORD)
             => /\ last'.out[1] \in pending_password'
                /\ ~users'[last'.out[1]].registered]_vars

\* C10, amended: the message is compared after str.strip(): the flag goes
\* from false to true only when the chat is in pending_password and sends the
\* password with or without surrounding whitespace; any other message leaves
\* the chat in pending_password and unregistered.
C10_StrippedPasswordOnly ==
    [][/\ \A c \in ChatIds :
             BecomesRegistered(c) =>
                /\ c \in pending_password
                /\ last'.op = "handle_password"
                /\ last'.out[1] = c
                /\ Strip(last'.out[2]) = REGISTRATION_PASSWORD
       /\ (last'.op = "handle_password" /\ Strip(last'.out[2]) # REGISTRATION_PASSWORD)
             => /\ last'.out[1] \in pending_password'
                /\ ~users'[last'.out[1]].registered
                /\ users' = users]_vars

\* a chat has registered with the password wrapped in spaces while another
\* chat is still waiting
C10_Witness ==
    /\ last.op = "handle_password" /\ last.res = "correct"
    /\ last.out[2] # REGISTRATION_PASSWORD
    /\ users[last.out[1]].registered
    /\ last.out[1] \notin pending_password
    /\ pending_password # {}

SlotsExcept(slots, c) == [d \in (DOMAIN slots) \ {c} |-> slots[d]]

\* C11: choosing a target stores its id and its points of that moment in the
\* chat's slot, which stays until the chat's next photo; that photo records
\* exactly one sighting for the chat with the slot's id and points and clears
\* the slot; a photo from a chat without a slot records nothing and changes
\* no total.
C11_PhotoConsumesSelection ==
    [][/\ (last'.op = "callback_matto" /\ last'.res = "chosen") =>
             \E m \in matti :
                /\ m.id = last'.out[2]
                /\ pending_matto' = Put(pending_matto, last'.out[1],
                                        [id |-> m.id, name |-> m.name, points |-> m.points])
       /\ ~(last'.op = "callback_matto" /\ last'.res = "chosen") /\ last'.op # "handler_photo"
             => pending_matto' = pending_matto
       /\ last'.op = "handler_photo" =>
             LET c == last'.out[1]
             IN  IF c \in DOMAIN pending_matto
                 THEN /\ sightings' = sightings \cup
                            {Sighting(next_sighting_id, c, pending_matto[c].id,
                                      pending_matto[c].points)}
                      /\ next_sighting_id \notin SightingIds
                      /\ pending_matto' = SlotsExcept(pending_matto, c)
                 ELSE /\ sightings' = sightings
                      /\ pending_matto' = pending_matto
                      /\ users' = users]_vars

\* a photo has been recorded with the points chosen before a reload that
\* removed the target, for a registered chat
C11_Witness ==
    /\ last.op = "handler_photo" /\ last.res = "reported"
    /\ last.out[1] \notin DOMAIN pending_matto
    /\ \E s \in sightings :
          /\ s.id = next_sighting_id - 1
          /\ s.user_chat_id = last.out[1]
          /\ \A m \in matti : m.id # s.matto_id /\ m.points # s.points_awarded
          /\ TotalOf(last.out[1]) = s.points_awarded

\* the pending maps that hold chat c
PendingModes(c) ==
    {mode \in {"password", "matto", "gallery_user", "gallery_matto", "manage_user"} :
        \/ mode = "password" /\ c \in pending_password
        \/ mode = "matto" /\ c \in DOMAIN pending_matto
        \/ mode = "gallery_user" /\ c \in DOMAIN pending_gallery_user
        \/ mode = "gallery_matto" /\ c \in DOMAIN pending_gallery_matto
        \/ mode = "manage_user" /\ c \in DOMAIN pending_manage_user}

\* C12: every chat is in at most one of pending_password, pending_matto,
\* pending_gallery_user, pending_gallery_matto and pending_manage_user.
C12_OnePendingMode ==
    \A c \in ChatIds : Cardinality(PendingModes(c)) <= 1

\* C13: a mode choice handled for a chat whose gallery slot is set clears
\* that chat's slot, in the gallery by user and in the gallery by target,
\* also when the user has no sightings or the target is gone.
C13_ModeChoiceClearsSlot ==
    [][/\ (last'.op = "callback_gallery_mode" /\ last'.out[1] \in DOMAIN pending_gallery_user)
             => last'.out[1] \notin DOMAIN pending_gallery_user'
       /\ (last'.op = "callback_matto_mode" /\ last'.out[1] \in DOMAIN pending_gallery_matto)
             => last'.out[1] \notin DOMAIN pending_gallery_matto']_vars

\* C14: a delete-sighting callback from a chat other than the admin changes
\* no row of users, sightings or matti, whatever the pending maps hold, and
\* a delete-sighting callback removes a row only when the admin sent it.
C14_OnlyAdminDeletes ==
    [][last'.op = "callback_delete_sighting" =>
          /\ last'.out[1] # ADMIN_CHAT_ID
                => users' = users /\ sightings' = sightings /\ matti' = matti
          /\ sightings' # sightings => last'.out[1] = ADMIN_CHAT_ID]_vars

\* a chat other than the admin, with an /admin session in pending_manage_user,
\* has pressed the delete button of a sighting that exists
C14_Witness ==
    /\ last.op = "callback_delete_sighting" /\ last.res = "not_admin"
    /\ last.out[1] # ADMIN_CHAT_ID
    /\ last.out[1] \in DOMAIN pending_manage_user
    /\ last.out[2] \in SightingIds
    /\ HasUser(SightingById(last.out[2]).user_chat_id)
    /\ TotalOf(SightingById(last.out[2]).user_chat_id) # 0

\* C17: the history /admin renders for a user is complete: the counts of
\* get_user_gallery sum to the number of the user's sighting rows and every
\* one of these rows gets a delete button.
C17_HistoryComplete ==
    last.op = "callback_manage_user" /\ last.res # "invalid" =>
        LET rows == SightingsOf(last.out[2])
        IN  /\ last.out[3] = Cardinality(rows)
            /\ last.out[4] = {s.id : s \in rows}

\* C15: a recipient whose broadcast send fails as unreachable gets registered
\* = 0 and is in no later get_registered_chat_ids() result; every other
\* user's registered flag, every total_points but the reporter's new points
\* and every sighting row but the new one are as before.
C15_UnreachableIsUnregistered ==
    [][(last'.op = "handler_photo" /\ last'.res = "reported") =>
          LET c == last'.out[1]
              removed == last'.out[3]
              pts == pending_matto[c].points
          IN  /\ removed \subseteq get_registered_chat_ids(users)
              /\ DOMAIN users' = DOMAIN users
              /\ get_registered_chat_ids(users') = get_registered_chat_ids(users) \ removed
              /\ \A u \in DOMAIN users :
                    /\ users'[u].registered = (users[u].registered /\ u \notin removed)
                    /\ users'[u].total_points =
                          users[u].total_points + (IF u = c THEN pts ELSE 0)
                    /\ users'[u].username = users[u].username
                    /\ users'[u].first_name = users[u].first_name
              /\ sightings \subseteq sightings'
              /\ Cardinality(sightings' \ sightings) = 1]_vars

\* a broadcast has unregistered one recipient who has points, and left
\* another registered
C15_Witness ==
    /\ last.op = "handler_photo" /\ last.res = "reported"
    /\ \E u \in last.out[3] : ~users[u].registered /\ TotalOf(u) # 0
    /\ get_registered_chat_ids(users) # {}

\* C16: every sighting row's matto_id is the id of a row of matti.
C16_SightingsReferToCatalog ==
    \A s \in sightings : \E m \in matti : m.id = s.matto_id

\* C18: no user's total_points is negative.
C18_TotalsNotNegative ==
    \A c \in DOMAIN users : TotalOf(c) >= 0

\* C20: a photo creates a sighting row only for a chat that has a users row
\* with registered = 1 when the photo is handled.
C20_OnlyRegisteredReport ==
    [][(last'.op = "handler_photo" /\ sightings' # sightings) =>
          /\ HasUser(last'.out[1])
          /\ users[last'.out[1]].registered]_vars

\* the statements of the helpers: every label but the wait for the lock and
\* the exit of the with block
Statements ==
    {"insert_user", "insert_sighting", "update_points", "select_sighting",
     "delete_row", "take_points", "pragma_off", "delete_sightings", "delete_matti",
     "reset_points", "pragma_on", "insert_matti", "select_registered", "commit",
     "update_registered", "set_registered", "select_gallery", "select_total",
     "select_recipients"}

\* C19: the composite operations are atomic under any interleaving: no
\* statement of a handler reads or writes the store while the statements of
\* another operation are half done, that is, while the connection holds
\* uncommitted statements of an operation other than its own.
C19_CompositeOperationsAtomic ==
    [][\A t \in Threads :
          (threads[t].pc \in Statements /\ threads'[t] # threads[t])
             => in_transaction \in {0, t}]_vars

C22_LockAcquiredAndReleased ==
    /\ [](\A t \in Threads : threads[t].pc = "lock" => db_lock # t)
    /\ \A t \in Threads : (threads[t].pc = "lock") ~> (db_lock = t)
    /\ \A t \in Threads : (db_lock = t) ~> (db_lock # t)

\* handler_photo on thread 1 has left add_sighting and waits for the lock of
\* its SELECT total_points while thread 2 is inside a with block
C22_Witness ==
    /\ threads[1].pc = "lock"
    /\ threads[1].call.op = "select_total_points"
    /\ db_lock = 2
    /\ threads[2].pc \notin {"idle", "lock"}

\* C23: the number in the confirmation the reporter gets after a photo is the
\* number of registered recipients that got both the text and the photo, for
\* every combination of recipients reached, unreachable and failing otherwise.
C23_ConfirmationCountsDelivered ==
    [][(last'.op = "handler_photo" /\ last'.res = "reported")
          => last'.out[2] = Cardinality(last'.out[4])]_vars

\* C24: a chat that is awaiting the password is never registered: every chat
\* in pending_password has a users row whose registered flag is false,
\* whatever /start, password messages and unregistrations came before.
C24_PendingIsUnregistered ==
    \A c \in pending_password : HasUser(c) /\ ~users[c].registered

\* a chat that /report once answered with a keyboard, so it was registered,
\* has been unregistered by a broadcast and is asked for the password again
C24_Witness ==
    /\ last.op = "cmd_start" /\ last.res = "ask_password"
    /\ \E c \in pending_password :
          /\ \E button \in keyboards : button[1] = c
          /\ SightingsOf(c) # {}
          /\ ~users[c].registered

\* C25: the reload runs only for a document the admin sends while an upload
\* is pending: a document from another chat, or from the admin with no upload
\* pending, leaves catalog, sightings and totals as they were; and once a
\* document of the admin has been handled while an upload was pending, the
\* flag is false, so that one /upload_matti allows at most one reload.
C25_OneReloadPerUpload ==
    [][last'.op = "handler_document" =>
          IF last'.out[1] = ADMIN_CHAT_ID /\ admin_upload_pending
          THEN ~admin_upload_pending'
          ELSE UNCHANGED <<matti, sightings, users, admin_upload_pending>>]_vars
====
